---- MODULE Spec2Model ----
(***************************************************************************)
(* A model of pyulid (src/src/lib.rs): the Crockford Base32 codec, the     *)
(* Ulid value type, the UUID conversions and the lock-guarded generation   *)
(* state behind ulid().                                                    *)
(*                                                                         *)
(* Unsigned machine integers are modelled at their full width: a u128 is   *)
(* the sequence of its 16 bytes and a u64 the sequence of its 8 bytes, the *)
(* most significant byte first.  Strings are sequences of Unicode scalar   *)
(* values; Utf8 gives the bytes Rust stores.                               *)
(***************************************************************************)
EXTENDS Integers, Sequences, FiniteSets, TLC

\* ------------------------------------------------------------------------
\* Machine integers
\* ------------------------------------------------------------------------

\* Bounds of the model.
NumThreads == 2
MaxCalls == 3
MaxMade == 2
LenSlack == 1

U64_BITS == 64
U128_BITS == 128
TIME_BITS == 48
RAND_BITS == 80

\* The width in bits.
Width(n) == 8 * Len(n)

\* Bit i of n, bit 0 being the least significant.
Bit(n, i) == (n[Len(n) - (i \div 8)] \div (2 ^ (i % 8))) % 2

\* The sequence a function on 1..n is, computed element by element once
\* (TLC keeps a function constructor unevaluated and would recompute it at
\* every Len).
AsSeq(f) == SubSeq(f, 1, Cardinality(DOMAIN f))

\* TRUE. TLC evaluates an operator's argument when it is first looked at; a
\* loop written as a recursive operator looks at its accumulator in every
\* round, as the program computes it in every round.
Computed(v) == v = v

\* The integer whose bits are f[0], f[1], ..., f[w - 1], for w a multiple
\* of 8.
Pack(f) ==
    LET len == Cardinality(DOMAIN f) \div 8
    IN  AsSeq([k \in 1..len |->
                LET b == 8 * (len - k)
                IN  f[b] + 2 * f[b + 1] + 4 * f[b + 2] + 8 * f[b + 3]
                    + 16 * f[b + 4] + 32 * f[b + 5] + 64 * f[b + 6]
                    + 128 * f[b + 7]])

\* The w-bit integer of a small natural number n < 2^30.
FromNat(w, n) ==
    LET len == w \div 8
    IN  AsSeq([j \in 1..len |->
                IF len - j < 4 THEN (n \div (256 ^ (len - j))) % 256 ELSE 0])

\* The w-bit integer 2^k.
Pow2(w, k) == Pack([i \in 0..(w - 1) |-> IF i = k THEN 1 ELSE 0])

\* number & 0x1f (number & 0x1F), as a table index.
Low5(n) == n[Len(n)] % 32

\* Byte j of n, byte 1 being the most significant; 0 outside the integer.
Byte(n, j) == IF j >= 1 /\ j <= Len(n) THEN n[j] ELSE 0

\* number >> k
Shr(n, k) ==
    LET q == k \div 8
        r == k % 8
    IN  AsSeq([j \in 1..Len(n) |->
                (Byte(n, j - q) \div (2 ^ r))
                + (Byte(n, j - q - 1) % (2 ^ r)) * (2 ^ (8 - r))])

\* number << k: the bits shifted past the width are dropped.
Shl(n, k) ==
    LET q == k \div 8
        r == k % 8
    IN  AsSeq([j \in 1..Len(n) |->
                ((Byte(n, j + q) * (2 ^ r)) % 256)
                + (Byte(n, j + q + 1) \div (2 ^ (8 - r)))])

RECURSIVE AndByte(_, _)
\* x & y on bytes.
AndByte(x, y) ==
    IF x = 0 \/ y = 0
    THEN 0
    ELSE (x % 2) * (y % 2) + 2 * AndByte(x \div 2, y \div 2)

RECURSIVE OrByte(_, _)
\* x | y on bytes.
OrByte(x, y) ==
    IF x = 0 THEN y
    ELSE IF y = 0 THEN x
    ELSE (IF (x % 2) + (y % 2) > 0 THEN 1 ELSE 0)
         + 2 * OrByte(x \div 2, y \div 2)

BitAnd(a, b) == AsSeq([j \in 1..Len(a) |-> AndByte(a[j], b[j])])

BitOr(a, b) == AsSeq([j \in 1..Len(a) |-> OrByte(a[j], b[j])])

\* value as u128 of an integer no wider than 128 bits (zero extension).
AsU128(n) ==
    LET len == U128_BITS \div 8
    IN  AsSeq([j \in 1..len |-> Byte(n, j - (len - Len(n)))])

\* value as u64 (truncation to the low 64 bits).
AsU64(n) ==
    LET len == U64_BITS \div 8
    IN  AsSeq([j \in 1..len |-> Byte(n, j + (Len(n) - len))])

IsZero(n) == \A k \in 1..Len(n) : n[k] = 0

\* a < b on unsigned integers of one width.
Lt(a, b) ==
    \E k \in 1..Len(a) :
        /\ a[k] < b[k]
        /\ \A j \in 1..(k - 1) : a[j] = b[j]

\* n + 1, wrapping at the width.
Add1(n) ==
    AsSeq([j \in 1..Len(n) |->
            IF \A i \in (j + 1)..Len(n) : n[i] = 255
            THEN (n[j] + 1) % 256
            ELSE n[j]])

\* Ulid::bitmask: (1 << len) - 1 as u128.
bitmask(len) == Pack([i \in 0..(U128_BITS - 1) |-> IF i < len THEN 1 ELSE 0])

\* ------------------------------------------------------------------------
\* Strings
\* ------------------------------------------------------------------------

\* s < t in Rust's ordering of strings: lexicographic on the bytes.
StrLt(s, t) ==
    \/ /\ Len(s) < Len(t)
       /\ \A i \in 1..Len(s) : s[i] = t[i]
    \/ \E i \in 1..Len(s) :
        /\ i <= Len(t)
        /\ s[i] < t[i]
        /\ \A j \in 1..(i - 1) : s[j] = t[j]

\* ------------------------------------------------------------------------
\* Base32 codec
\* ------------------------------------------------------------------------

\* b"0123456789ABCDEFGHJKMNPQRSTVWXYZ"; ALPHABET[k + 1] is the source's
\* ALPHABET[k].
ALPHABET ==
    << 48, 49, 50, 51, 52, 53, 54, 55, 56, 57,
       65, 66, 67, 68, 69, 70, 71, 72, 74, 75,
       77, 78, 80, 81, 82, 83, 84, 86, 87, 88,
       89, 90 >>

\* The entries the source sets in DECODE_TABLE; every other entry is 0xFF.
DecodeEntries ==
    (48 :> 0) @@ (49 :> 1) @@ (50 :> 2) @@ (51 :> 3) @@ (52 :> 4) @@
    (53 :> 5) @@ (54 :> 6) @@ (55 :> 7) @@ (56 :> 8) @@ (57 :> 9) @@
    (65 :> 10) @@ (66 :> 11) @@ (67 :> 12) @@ (68 :> 13) @@ (69 :> 14) @@
    (70 :> 15) @@ (71 :> 16) @@ (72 :> 17) @@ (74 :> 18) @@ (75 :> 19) @@
    (77 :> 20) @@ (78 :> 21) @@ (80 :> 22) @@ (81 :> 23) @@ (82 :> 24) @@
    (83 :> 25) @@ (84 :> 26) @@ (86 :> 27) @@ (87 :> 28) @@ (88 :> 29) @@
    (89 :> 30) @@ (90 :> 31) @@
    (97 :> 10) @@ (98 :> 11) @@ (99 :> 12) @@ (100 :> 13) @@ (101 :> 14) @@
    (102 :> 15) @@ (103 :> 16) @@ (104 :> 17) @@ (106 :> 18) @@ (107 :> 19) @@
    (109 :> 20) @@ (110 :> 21) @@ (112 :> 22) @@ (113 :> 23) @@ (114 :> 24) @@
    (115 :> 25) @@ (116 :> 26) @@ (118 :> 27) @@ (119 :> 28) @@ (120 :> 29) @@
    (121 :> 30) @@ (122 :> 31)

DECODE_TABLE ==
    [b \in 0..255 |-> IF b \in DOMAIN DecodeEntries THEN DecodeEntries[b] ELSE 255]

RECURSIVE EncodeLoop(_, _, _)
\* The while loop of encode_base32_internal; buffer[pos + 1] is the
\* source's buffer[pos].
EncodeLoop(number, pos, buffer) ==
    IF ~IsZero(number) /\ pos > 0
    THEN EncodeLoop(Shr(number, 5), pos - 1,
                    [buffer EXCEPT ![pos + 1] = ALPHABET[Low5(number) + 1]])
    ELSE buffer

\* An encoder that renders zero as the single character "0".
EncodeZeroAsOneChar(number) ==
    IF IsZero(number)
    THEN << 48 >>
    ELSE EncodeLoop(number, 25, AsSeq([i \in 1..26 |-> 48]))

encode_base32_internal(number) ==
    EncodeLoop(number, 25, AsSeq([i \in 1..26 |-> 48]))


\* Results of the fallible operations: Ok(v) and Err(kind).
Ok(v) == [ok |-> TRUE, val |-> v, err |-> "none"]

Err(kind) == [ok |-> FALSE, val |-> << >>, err |-> kind]

\* The error of decode_base32_internal: its message names the offending
\* byte, as the char of the same value.
InvalidCharacter(byte) ==
    [ok |-> FALSE, val |-> << byte >>, err |-> "InvalidCharacter"]

RECURSIVE DecodeLoop(_, _, _)
\* The for loop of decode_base32_internal over encoded.bytes(), from the
\* i-th byte on.
DecodeLoop(bytes, i, result) ==
    IF Computed(result) /\ i > Len(bytes)
    THEN Ok(result)
    ELSE LET value == DECODE_TABLE[bytes[i]]
         IN  IF value = 255
             THEN InvalidCharacter(bytes[i])
             ELSE DecodeLoop(bytes, i + 1,
                             BitOr(Shl(result, 5), FromNat(U128_BITS, value)))

\* A decoder that refuses more than 26 bytes.
DecodeAtMost26(bytes) ==
    IF Len(bytes) > 26
    THEN Err("LengthMismatch")
    ELSE DecodeLoop(bytes, 1, FromNat(U128_BITS, 0))

\* decode_base32_internal on the bytes of a string.
decode_base32_internal(bytes) == DecodeLoop(bytes, 1, FromNat(U128_BITS, 0))

\* The element of a one-element set.  A loop written as a recursive operator
\* binds the values of its next round with it, so that they are computed
\* once, round by round, as the program computes them.
Only(S) == CHOOSE v \in S : TRUE

RECURSIVE EncodeFixed(_, _, _)
\* for i in (0..n).rev(): buffer[i] = ALPHABET[(x & 0x1F)]; x >>= 5, with
\* i + 1 the position still to be written.
EncodeFixed(x, i, buffer) ==
    IF i = 0
    THEN buffer
    ELSE Only({ EncodeFixed(next.x, i - 1, next.buffer) :
                    next \in { [ x |-> Shr(x, 5),
                                 buffer |-> [buffer EXCEPT
                                               ![i] = ALPHABET[Low5(x) + 1]] ] } })

encode_timestamp(timestamp) == EncodeFixed(timestamp, 10, AsSeq([i \in 1..10 |-> 48]))

encode_random(random) == EncodeFixed(random, 16, AsSeq([i \in 1..16 |-> 48]))

\* ------------------------------------------------------------------------
\* Ulid value type
\* ------------------------------------------------------------------------

\* Ulid::from_parts: the raw 128-bit value.
from_parts(timestamp_ms, rand) ==
    LET time_part == BitAnd(AsU128(timestamp_ms), bitmask(TIME_BITS))
        rand_part == BitAnd(rand, bitmask(RAND_BITS))
    IN  BitOr(Shl(time_part, RAND_BITS), rand_part)

\* Ulid::timestamp_ms
timestamp_ms(ulid) == AsU64(Shr(ulid, RAND_BITS))

\* Ulid::random
random(ulid) == BitAnd(ulid, bitmask(RAND_BITS))

\* Ulid::to_string
to_string(ulid) == encode_base32_internal(ulid)

\* The sample kept whole, without the mask of 80 bits.
MaskSampleUnmasked(raw) == raw

\* rng.random::<u128>() & Ulid::bitmask(80), for the sample the generator
\* returned.
MaskSample(raw) == BitAnd(raw, bitmask(RAND_BITS))

\* ulid_with_timestamp, for the sample the generator returned.
ulid_with_timestamp(timestamp, raw) ==
    to_string(from_parts(timestamp, MaskSample(raw)))


\* ------------------------------------------------------------------------
\* Text operations
\* ------------------------------------------------------------------------

\* The UTF-8 bytes of one Unicode scalar value.
Utf8Char(c) ==
    IF c < 128 THEN << c >>
    ELSE IF c < 2048 THEN << 192 + (c \div 64), 128 + (c % 64) >>
    ELSE IF c < 65536
         THEN << 224 + (c \div 4096), 128 + ((c \div 64) % 64), 128 + (c % 64) >>
         ELSE << 240 + (c \div 262144), 128 + ((c \div 4096) % 64),
                 128 + ((c \div 64) % 64), 128 + (c % 64) >>

RECURSIVE Utf8(_)
\* str::bytes(): the bytes of a string given as its chars.
Utf8(s) == IF s = << >> THEN << >> ELSE Utf8Char(Head(s)) \o Utf8(Tail(s))

\* str::len(): the length in bytes.
StrLen(s) == Len(Utf8(s))

\* char::to_ascii_uppercase / u8::to_ascii_uppercase
to_ascii_uppercase(c) == IF c >= 97 /\ c <= 122 THEN c - 32 ELSE c

\* str::to_ascii_uppercase
StrToUpper(s) == AsSeq([i \in 1..Len(s) |-> to_ascii_uppercase(s[i])])

\* ALPHABET.contains(&b)
AlphabetContains(b) == \E k \in 1..Len(ALPHABET) : ALPHABET[k] = b

\* The closure of ulid_is_valid: c.to_ascii_uppercase() as u8 is in
\* ALPHABET; the cast keeps the low eight bits of the char.
ValidChar(c) == AlphabetContains(to_ascii_uppercase(c) % 256)

ulid_is_valid(ulid_str) ==
    IF StrLen(ulid_str) # 26
    THEN FALSE
    ELSE \A i \in 1..Len(ulid_str) : ValidChar(ulid_str[i])

ulid_timestamp(ulid_str) ==
    IF StrLen(ulid_str) # 26
    THEN Err("LengthMismatch")
    ELSE LET decoded == decode_base32_internal(Utf8(ulid_str))
         IN  IF decoded.ok THEN Ok(timestamp_ms(decoded.val)) ELSE decoded

ulid_random(ulid_str) ==
    IF StrLen(ulid_str) # 26
    THEN Err("LengthMismatch")
    ELSE LET decoded == decode_base32_internal(Utf8(ulid_str))
         IN  IF decoded.ok THEN Ok(random(decoded.val)) ELSE decoded

\* One digit of {:x}.
HexChar(d) == IF d < 10 THEN 48 + d ELSE 97 + (d - 10)

\* format!("{:032x}", decoded)
FormatHex(decoded) ==
    AsSeq([j \in 1..32 |->
            LET b == 4 * (32 - j)
            IN  HexChar(Bit(decoded, b) + 2 * Bit(decoded, b + 1)
                        + 4 * Bit(decoded, b + 2) + 8 * Bit(decoded, b + 3))])

ulid_to_uuid(ulid_str) ==
    IF StrLen(ulid_str) # 26
    THEN Err("LengthMismatch")
    ELSE LET decoded == decode_base32_internal(Utf8(ulid_str))
         IN  IF ~decoded.ok
             THEN decoded
             ELSE LET hex == FormatHex(decoded.val)
                  IN  Ok(SubSeq(hex, 1, 8) \o << 45 >> \o SubSeq(hex, 9, 12)
                         \o << 45 >> \o SubSeq(hex, 13, 16) \o << 45 >>
                         \o SubSeq(hex, 17, 20) \o << 45 >> \o SubSeq(hex, 21, 32))

\* (c as char).to_digit(16); 255 stands for None.
ToDigit16(b) ==
    IF b >= 48 /\ b <= 57 THEN b - 48
    ELSE IF b >= 97 /\ b <= 102 THEN b - 87
    ELSE IF b >= 65 /\ b <= 70 THEN b - 55
    ELSE 255

RECURSIVE RadixLoop(_, _, _)
\* The digit loop of u128::from_str_radix(_, 16), from the i-th byte on.
\* At most 32 digits reach it, so the accumulator cannot overflow.
RadixLoop(digits, i, result) ==
    IF Computed(result) /\ i > Len(digits)
    THEN Ok(result)
    ELSE LET d == ToDigit16(digits[i])
         IN  IF d = 255
             THEN Err("InvalidHex")
             ELSE RadixLoop(digits, i + 1,
                            BitOr(Shl(result, 4), FromNat(U128_BITS, d)))

\* u128::from_str_radix(src, 16) on the bytes of src: an optional '+' sign,
\* then digits; a lone sign and the empty string are errors.
from_str_radix(src) ==
    IF src = << >> THEN Err("InvalidHex")
    ELSE IF (src[1] = 43 \/ src[1] = 45) /\ Len(src) = 1 THEN Err("InvalidHex")
    ELSE IF src[1] = 43 THEN RadixLoop(Tail(src), 1, FromNat(U128_BITS, 0))
    ELSE RadixLoop(src, 1, FromNat(U128_BITS, 0))

\* uuid_str.chars().filter(|c| *c != '-').collect()
StripHyphens(s) == SelectSeq(s, LAMBDA c : c # 45)

uuid_to_ulid(uuid_str) ==
    LET hex_only == StripHyphens(uuid_str)
    IN  IF StrLen(hex_only) # 32
        THEN Err("FormatError")
        ELSE LET decoded == from_str_radix(Utf8(hex_only))
             IN  IF decoded.ok
                 THEN Ok(encode_base32_internal(decoded.val))
                 ELSE decoded

ulid_from_str(ulid_str) ==
    IF StrLen(ulid_str) # 26
    THEN Err("LengthMismatch")
    ELSE IF ~ulid_is_valid(ulid_str)
         THEN Err("FormatError")
         ELSE Ok(StrToUpper(ulid_str))


\* ------------------------------------------------------------------------
\* Generation state
\* ------------------------------------------------------------------------

\* The clock readings the model draws from (SystemTime::now() in
\* milliseconds, as u64): 2^45 - 1, 2^45 and 2^48 - 1, all within 48 bits.
ClockReadings ==
    { AsU64(bitmask(45)), Pow2(U64_BITS, 45), AsU64(bitmask(TIME_BITS)) }

\* The values rng.random::<u128>() returns in the model: 2^80 (low 80 bits
\* 0), 2^128 - 2 and 2^128 - 1 (low 80 bits 2^80 - 2 and 2^80 - 1).
RawSamples ==
    { Pow2(U128_BITS, RAND_BITS),
      Pack([i \in 0..(U128_BITS - 1) |-> IF i = 0 THEN 0 ELSE 1]),
      bitmask(U128_BITS) }

Threads == 1..NumThreads

VARIABLES
    once,       \* ULID_STATE: "uninit", "running" (its closure runs) or "done"
    st,         \* the UlidState inside the Mutex
    mutex,      \* the thread holding the Mutex, 0 when it is free
    pc,         \* pc[t]: where thread t is in ulid()
    frame,      \* frame[t]: the locals of thread t's call
    nlocks,     \* how many times the Mutex has been acquired
    ncalls,     \* how many calls of ulid() have started
    ninits,     \* how many times UlidState::new() has run
    returned    \* the calls that returned, each with what it saw

engineVars ==
    << once, st, mutex, pc, frame, nlocks, ncalls, ninits, returned >>

VARIABLES
    value,      \* the u128 handed to encode_base32
    encoded,    \* encode_base32(value), << >> before the call
    decoded,    \* decode_base32(encoded), pending before the call
    made        \* the ulid_with_timestamp calls made, each with its result

codecVars == << value, encoded, decoded, made >>

VARIABLES
    text,       \* the string handed to a text operation
    fn,         \* the operations applied to it so far
    ret         \* the result of the last one

textVars == << text, fn, ret >>

\* UlidState::new(), for the clock reading and the sample it got.
UlidState_new(timestamp, raw) ==
    [ last_timestamp |-> timestamp,
      last_random |-> MaskSample(raw),
      timestamp_str |-> encode_timestamp(timestamp),
      buffer |-> AsSeq([i \in 1..26 |-> 48]) ]

\* The value st holds before ULID_STATE is initialised (no UlidState exists).
NoState ==
    [ last_timestamp |-> FromNat(U64_BITS, 0),
      last_random |-> FromNat(U128_BITS, 0),
      timestamp_str |-> AsSeq([i \in 1..10 |-> 48]),
      buffer |-> AsSeq([i \in 1..26 |-> 48]) ]

\* The fields of a UlidState a call is compared against.
Snapshot(s) ==
    [ last_timestamp |-> s.last_timestamp,
      last_random |-> s.last_random,
      timestamp_str |-> s.timestamp_str ]

\* The locals of a call that has not read anything yet.
NoFrame ==
    [ current_timestamp |-> FromNat(U64_BITS, 0),
      branch |-> "none",
      ticket |-> 0,
      before |-> Snapshot(NoState),
      result |-> Err("pending") ]

\* Branch without the comparison against the clock going backwards: any
\* reading other than last_timestamp opens a new millisecond.
BranchNoRegressionCheck(s, current_timestamp) ==
    IF current_timestamp = s.last_timestamp
    THEN IF s.last_random = bitmask(RAND_BITS) THEN "overflow" ELSE "increment"
    ELSE "new"

\* Branch without the test of last_random against 2^80 - 1.
BranchNoOverflowCheck(s, current_timestamp) ==
    IF current_timestamp = s.last_timestamp
    THEN "increment"
    ELSE IF Lt(s.last_timestamp, current_timestamp) THEN "new" ELSE "regress"

\* Branch as a permissive engine would take it: a backward reading counts
\* as the same millisecond, and an exhausted last_random is resampled.
BranchPermissive(s, current_timestamp) ==
    IF ~Lt(s.last_timestamp, current_timestamp)
    THEN IF s.last_random = bitmask(RAND_BITS) THEN "new" ELSE "increment"
    ELSE "new"

\* The branch generate_string takes for a clock reading.
Branch(s, current_timestamp) ==
    IF current_timestamp = s.last_timestamp
    THEN IF s.last_random = bitmask(RAND_BITS) THEN "overflow" ELSE "increment"
    ELSE IF Lt(s.last_timestamp, current_timestamp) THEN "new" ELSE "regress"

\* Update without line 105: the cached timestamp encoding is left stale.
UpdateStaleCache(s, branch, current_timestamp, raw) ==
    IF branch = "increment"
    THEN [s EXCEPT !.last_random = Add1(s.last_random)]
    ELSE IF branch = "new"
    THEN [s EXCEPT !.last_timestamp = current_timestamp,
                   !.last_random = MaskSample(raw)]
    ELSE s

\* Update with an increment of two in the same-millisecond branch.
UpdateSkipsOne(s, branch, current_timestamp, raw) ==
    IF branch = "increment"
    THEN [s EXCEPT !.last_random = Add1(Add1(s.last_random))]
    ELSE IF branch = "new"
    THEN [s EXCEPT !.last_timestamp = current_timestamp,
                   !.last_random = MaskSample(raw),
                   !.timestamp_str = encode_timestamp(current_timestamp)]
    ELSE s

\* The assignments of the branch taken ("Update state"); raw is the sample
\* drawn in the new-millisecond branch.
Update(s, branch, current_timestamp, raw) ==
    IF branch = "increment"
    THEN [s EXCEPT !.last_random = Add1(s.last_random)]
    ELSE IF branch = "new"
    THEN [s EXCEPT !.last_timestamp = current_timestamp,
                   !.last_random = MaskSample(raw),
                   !.timestamp_str = encode_timestamp(current_timestamp)]
    ELSE s

\* "String construction using cached timestamp": the buffer after the two
\* copy_from_slice calls.
Render(s) == s.timestamp_str \o encode_random(s.last_random)

\* The error message generate_string returns in a failing branch.
BranchError(branch) ==
    IF branch = "overflow" THEN Err("RandomOverflow") ELSE Err("ClockRegression")

\* A cell that lets every caller arriving before the closure has finished
\* run the closure itself.
MayInitRacy == once # "done"

\* ULID_STATE.get_or_init runs its closure only when the cell is empty; a
\* thread arriving while the closure runs waits for it.
MayInit == once = "uninit"

\* A lock that excludes nobody.
MutexNeverHeld == TRUE

\* state_mutex.lock() returns only when no thread holds the Mutex.
MutexFree == mutex = 0

\* ulid(), line 217: get_or_init on an initialised cell returns at once; on
\* an empty cell the caller starts the closure.
GetOrInit(t) ==
    /\ pc[t] = "idle"
    /\ ncalls < MaxCalls
    /\ \/ /\ once = "done"
          /\ pc' = [pc EXCEPT ![t] = "lock"]
          /\ once' = once
       \/ /\ MayInit
          /\ once' = "running"
          /\ pc' = [pc EXCEPT ![t] = "new"]
    /\ ncalls' = ncalls + 1
    /\ UNCHANGED << st, mutex, frame, nlocks, ninits, returned,
                 codecVars, textVars >>

\* The closure of get_or_init: Mutex::new(UlidState::new()).
New(t) ==
    /\ pc[t] = "new"
    /\ \E timestamp \in ClockReadings, raw \in RawSamples :
        st' = UlidState_new(timestamp, raw)
    /\ once' = "done"
    /\ ninits' = ninits + 1
    /\ pc' = [pc EXCEPT ![t] = "lock"]
    /\ UNCHANGED << mutex, frame, nlocks, ncalls, returned,
                 codecVars, textVars >>

\* ulid(), line 218: state_mutex.lock().
Lock(t) ==
    /\ pc[t] = "lock"
    /\ MutexFree
    /\ mutex' = t
    /\ nlocks' = nlocks + 1
    /\ frame' = [frame EXCEPT ![t].ticket = nlocks + 1]
    /\ pc' = [pc EXCEPT ![t] = "read_clock"]
    /\ UNCHANGED << once, st, ncalls, ninits, returned,
                 codecVars, textVars >>

\* generate_string, lines 87-90: the clock read.
ReadClock(t) ==
    /\ pc[t] = "read_clock"
    /\ \E now \in ClockReadings :
        frame' = [frame EXCEPT ![t].current_timestamp = now]
    /\ pc' = [pc EXCEPT ![t] = "decide"]
    /\ UNCHANGED << once, st, mutex, nlocks, ncalls, ninits, returned,
                 codecVars, textVars >>

\* Decide with the clock reading stored before the comparisons: a failing
\* call leaves last_timestamp at its own reading.
DecideStoresReading(t) ==
    /\ pc[t] = "decide"
    /\ LET branch == Branch(st, frame[t].current_timestamp)
       IN  /\ frame' = [frame EXCEPT
                  ![t].branch = branch,
                  ![t].before = Snapshot(st),
                  ![t].result = IF branch \in {"overflow", "regress"}
                                THEN BranchError(branch)
                                ELSE @]
           /\ pc' = [pc EXCEPT ![t] =
                  IF branch \in {"overflow", "regress"} THEN "unlock" ELSE "apply"]
           /\ st' = IF branch \in {"overflow", "regress"}
                    THEN [st EXCEPT !.last_timestamp = frame[t].current_timestamp]
                    ELSE st
    /\ UNCHANGED << once, mutex, nlocks, ncalls, ninits, returned,
                 codecVars, textVars >>

\* generate_string, lines 93-108: the comparisons; the failing branches
\* return their error here.
Decide(t) ==
    /\ pc[t] = "decide"
    /\ LET branch == Branch(st, frame[t].current_timestamp)
       IN  /\ frame' = [frame EXCEPT
                  ![t].branch = branch,
                  ![t].before = Snapshot(st),
                  ![t].result = IF branch \in {"overflow", "regress"}
                                THEN BranchError(branch)
                                ELSE @]
           /\ pc' = [pc EXCEPT ![t] =
                  IF branch \in {"overflow", "regress"} THEN "unlock" ELSE "apply"]
    /\ UNCHANGED << once, st, mutex, nlocks, ncalls, ninits, returned,
                 codecVars, textVars >>

\* generate_string, lines 99 and 102-105: the assignments of the branch.
Apply(t) ==
    /\ pc[t] = "apply"
    /\ \E raw \in (IF frame[t].branch = "new" THEN RawSamples
                   ELSE {bitmask(U128_BITS)}) :
        st' = Update(st, frame[t].branch, frame[t].current_timestamp, raw)
    /\ pc' = [pc EXCEPT ![t] = "render"]
    /\ UNCHANGED << once, mutex, frame, nlocks, ncalls, ninits, returned,
                 codecVars, textVars >>

\* generate_string, lines 111-116: the string is built in the buffer.
RenderString(t) ==
    /\ pc[t] = "render"
    /\ st' = [st EXCEPT !.buffer = Render(st)]
    /\ frame' = [frame EXCEPT ![t].result = Ok(Render(st))]
    /\ pc' = [pc EXCEPT ![t] = "unlock"]
    /\ UNCHANGED << once, mutex, nlocks, ncalls, ninits, returned,
                 codecVars, textVars >>

\* Unlock with the guard dropped on the Ok path only: a call that failed
\* returns with the Mutex still locked.
UnlockOnSuccessOnly(t) ==
    /\ pc[t] = "unlock"
    /\ mutex' = IF frame[t].result.ok THEN 0 ELSE mutex
    /\ returned' = Append(returned,
           [ ticket |-> frame[t].ticket,
             current_timestamp |-> frame[t].current_timestamp,
             branch |-> frame[t].branch,
             before |-> frame[t].before,
             after |-> Snapshot(st),
             result |-> frame[t].result ])
    /\ frame' = [frame EXCEPT ![t] = NoFrame]
    /\ pc' = [pc EXCEPT ![t] = "idle"]
    /\ UNCHANGED << once, st, nlocks, ncalls, ninits,
                 codecVars, textVars >>

\* ulid(), lines 220-224: the result is returned and the guard dropped.
Unlock(t) ==
    /\ pc[t] = "unlock"
    /\ mutex' = 0
    /\ returned' = Append(returned,
           [ ticket |-> frame[t].ticket,
             current_timestamp |-> frame[t].current_timestamp,
             branch |-> frame[t].branch,
             before |-> frame[t].before,
             after |-> Snapshot(st),
             result |-> frame[t].result ])
    /\ frame' = [frame EXCEPT ![t] = NoFrame]
    /\ pc' = [pc EXCEPT ![t] = "idle"]
    /\ UNCHANGED << once, st, nlocks, ncalls, ninits,
                 codecVars, textVars >>


\* ------------------------------------------------------------------------
\* The stateless operations, applied to inputs drawn from bounded sets
\* ------------------------------------------------------------------------

vars == << engineVars, codecVars, textVars >>

\* The u128 inputs: 2^k and 2^k - 1 at and just below every digit boundary
\* (k a multiple of 5, or one less), 2^127, 2^128 - 1, and 1023.
Numbers128 ==
    { Pow2(U128_BITS, k) : k \in { j \in 0..127 : j % 5 \in {0, 4} } }
    \cup { bitmask(k) : k \in { j \in 0..127 : j % 5 \in {0, 4} } }
    \cup { Pow2(U128_BITS, 127), bitmask(U128_BITS), FromNat(U128_BITS, 1023) }

\* The timestamps handed to ulid_with_timestamp: the clock readings, 1 and
\* 2^48 (wider than the field).
TimestampArgs ==
    ClockReadings \cup { FromNat(U64_BITS, 1), Pow2(U64_BITS, TIME_BITS) }

EngineIdle ==
    /\ once = "uninit"
    /\ st = NoState
    /\ mutex = 0
    /\ pc = [t \in Threads |-> "idle"]
    /\ frame = [t \in Threads |-> NoFrame]
    /\ nlocks = 0
    /\ ncalls = 0
    /\ ninits = 0
    /\ returned = << >>

CodecIdle ==
    /\ value = FromNat(U128_BITS, 0)
    /\ encoded = << >>
    /\ decoded = Err("pending")
    /\ made = << >>

TextIdle ==
    /\ text = << >>
    /\ fn = << >>
    /\ ret = Err("pending")

\* encode_base32(value)
EncodeBase32 ==
    /\ encoded = << >>
    /\ encoded' = encode_base32_internal(value)
    /\ UNCHANGED << value, decoded, made, engineVars, textVars >>

\* decode_base32 of the string encode_base32 returned
DecodeBase32 ==
    /\ encoded # << >>
    /\ decoded = Err("pending")
    /\ decoded' = decode_base32_internal(encoded)
    /\ UNCHANGED << value, encoded, made, engineVars, textVars >>

\* ulid_with_timestamp going through the shared state, as ulid() does: the
\* timestamp and the sample are stored in it.
UlidWithTimestampThroughState ==
    /\ Len(made) < MaxMade
    /\ \E timestamp \in TimestampArgs, raw \in RawSamples :
        /\ made' = Append(made,
              [ timestamp_ms |-> timestamp,
                random |-> MaskSample(raw),
                text |-> ulid_with_timestamp(timestamp, raw) ])
        /\ st' = [st EXCEPT !.last_timestamp = timestamp,
                            !.last_random = MaskSample(raw)]
    /\ UNCHANGED << value, encoded, decoded, once, mutex, pc, frame, nlocks,
                    ncalls, ninits, returned, textVars >>

\* ulid_with_timestamp(timestamp_ms)
UlidWithTimestamp ==
    /\ Len(made) < MaxMade
    /\ \E timestamp \in TimestampArgs, raw \in RawSamples :
        made' = Append(made,
            [ timestamp_ms |-> timestamp,
              random |-> MaskSample(raw),
              text |-> ulid_with_timestamp(timestamp, raw) ])
    /\ UNCHANGED << value, encoded, decoded, engineVars, textVars >>

\* The string of n chars c.
Fill(n, c) == AsSeq([i \in 1..n |-> c])

\* The chars put into the inputs: 0 1 7 8 Z z a f F g G, the excluded
\* letters I i L l O o U u, the signs - + and space, the neighbours @ [ ` {
\* of the letter ranges, and beyond ASCII U+00E9, U+0130 and U+0141 (whose
\* low bytes are those of '0' and 'A'), U+0161 (low byte of 'a') and U+1F600.
CharSamples ==
    { 48, 49, 55, 56, 90, 122, 97, 102, 70, 103, 71,
      73, 105, 76, 108, 79, 111, 85, 117,
      45, 43, 32, 64, 91, 96, 123,
      233, 304, 321, 353, 128512 }

\* s, and s with its first or its last char replaced by a sample.
Variants(s) ==
    {s} \cup { [s EXCEPT ![p] = c] : p \in {1, Len(s)}, c \in CharSamples }

\* "01ARZ3NDEKTSV4RRFFQ69G5FAV"
ExampleUlid ==
    << 48, 49, 65, 82, 90, 51, 78, 68, 69, 75, 84, 83, 86,
       52, 82, 82, 70, 70, 81, 54, 57, 71, 53, 70, 65, 86 >>

\* hex in the 8-4-4-4-12 grouping.
Hyphenate(hex) ==
    SubSeq(hex, 1, 8) \o << 45 >> \o SubSeq(hex, 9, 12) \o << 45 >>
    \o SubSeq(hex, 13, 16) \o << 45 >> \o SubSeq(hex, 17, 20) \o << 45 >>
    \o SubSeq(hex, 21, Len(hex))

\* The inputs of the text operations: strings of 26 and of 32 chars, and
\* of up to LenSlack chars fewer or more, filled with one char (a digit, an
\* upper-case or a lower-case letter), the same with the first or the last
\* char replaced by a sample, hyphenated forms, and the empty string.
TextInputs ==
    UNION { Variants(Fill(n, c)) :
                n \in (26 - LenSlack)..(26 + LenSlack), c \in {48, 90, 122} }
    \cup UNION { Variants(Fill(n, c)) :
                n \in (32 - LenSlack)..(32 + LenSlack), c \in {48, 102, 70} }
    \cup UNION { Variants(Hyphenate(Fill(n, 102))) :
                n \in (32 - LenSlack)..(32 + LenSlack) }
    \cup Variants(ExampleUlid)
    \cup { << >> }

\* ulid_is_valid(text)
UlidIsValid ==
    /\ fn = << >>
    /\ fn' = << "ulid_is_valid" >>
    /\ ret' = Ok(ulid_is_valid(text))
    /\ UNCHANGED << text, engineVars, codecVars >>

\* ulid_to_uuid(text)
UlidToUuid ==
    /\ fn = << >>
    /\ fn' = << "ulid_to_uuid" >>
    /\ ret' = ulid_to_uuid(text)
    /\ UNCHANGED << text, engineVars, codecVars >>

\* uuid_to_ulid(text)
UuidToUlid ==
    /\ fn = << >>
    /\ fn' = << "uuid_to_ulid" >>
    /\ ret' = uuid_to_ulid(text)
    /\ UNCHANGED << text, engineVars, codecVars >>

\* uuid_to_ulid of the string ulid_to_uuid(text) returned
UuidToUlidOfResult ==
    /\ fn = << "ulid_to_uuid" >>
    /\ ret.ok
    /\ fn' = << "ulid_to_uuid", "uuid_to_ulid" >>
    /\ ret' = uuid_to_ulid(ret.val)
    /\ UNCHANGED << text, engineVars, codecVars >>

\* decode_base32(text)
DecodeBase32OfText ==
    /\ fn = << >>
    /\ fn' = << "decode_base32" >>
    /\ ret' = decode_base32_internal(Utf8(text))
    /\ UNCHANGED << text, engineVars, codecVars >>

\* ulid_timestamp(text)
UlidTimestamp ==
    /\ fn = << >>
    /\ fn' = << "ulid_timestamp" >>
    /\ ret' = ulid_timestamp(text)
    /\ UNCHANGED << text, engineVars, codecVars >>

\* ulid_random(text)
UlidRandom ==
    /\ fn = << >>
    /\ fn' = << "ulid_random" >>
    /\ ret' = ulid_random(text)
    /\ UNCHANGED << text, engineVars, codecVars >>

\* ulid_from_str(text)
UlidFromStr ==
    /\ fn = << >>
    /\ fn' = << "ulid_from_str" >>
    /\ ret' = ulid_from_str(text)
    /\ UNCHANGED << text, engineVars, codecVars >>

\* ulid_timestamp of the string ulid_from_str(text) returned
UlidTimestampOfResult ==
    /\ fn = << "ulid_from_str" >>
    /\ ret.ok
    /\ fn' = << "ulid_from_str", "ulid_timestamp" >>
    /\ ret' = ulid_timestamp(ret.val)
    /\ UNCHANGED << text, engineVars, codecVars >>

\* --- the generation engine under concurrent callers ---------------------

Init == EngineIdle /\ CodecIdle /\ TextIdle

Next ==
    \E t \in Threads :
        \/ GetOrInit(t)
        \/ New(t)
        \/ Lock(t)
        \/ ReadClock(t)
        \/ Decide(t)
        \/ Apply(t)
        \/ RenderString(t)
        \/ Unlock(t)

Spec == Init /\ [][Next]_vars

\* --- the codec and the value type on the bounded inputs -----------------

CodecInit ==
    /\ EngineIdle
    /\ TextIdle
    /\ value \in Numbers128
    /\ encoded = << >>
    /\ decoded = Err("pending")
    /\ made = << >>

CodecNext ==
    \/ EncodeBase32
    \/ DecodeBase32

SpecCodec == CodecInit /\ [][CodecNext]_vars

\* --- ulid_with_timestamp called repeatedly -------------------------------

MadeNext == UlidWithTimestamp

SpecMade == Init /\ [][MadeNext]_vars


\* ------------------------------------------------------------------------
\* Properties of the generation engine (specification Spec)
\* ------------------------------------------------------------------------

Returned == 1..Len(returned)

\* The call returned a ULID string.
Issued(i) == returned[i].result.ok

\* Call i acquired the state lock before call j.
LockedBefore(i, j) == returned[i].ticket < returned[j].ticket

\* The maximal value of last_random, 2^80 - 1.
MaxRandom == bitmask(RAND_BITS)

\* C1: the strings ulid() returns, taken in the order in which the callers
\* acquired the state lock, are strictly increasing: every returned string
\* is greater than every string returned to an earlier lock holder, whatever
\* the (48-bit) clock readings were, repeated and backward ones included.
C1_StrictlyIncreasing ==
    \A i, j \in Returned :
        (Issued(i) /\ Issued(j) /\ LockedBefore(i, j))
            => StrLt(returned[i].result.val, returned[j].result.val)

\* Two ULIDs were issued, the later one in the millisecond of the state it
\* found, and a call in between or around them saw the clock go backwards.
C1_Witness ==
    \E i, j, k \in Returned :
        /\ Issued(i) /\ Issued(j) /\ LockedBefore(i, j)
        /\ returned[j].branch = "increment"
        /\ returned[k].branch = "regress"

\* C2: no two successful calls return the same (last_timestamp, last_random)
\* pair or the same string, and no two calls take the new-millisecond branch
\* for the same clock value.
C2_NoDuplicates ==
    \A i, j \in Returned :
        (i # j /\ Issued(i) /\ Issued(j)) =>
            /\ << returned[i].after.last_timestamp, returned[i].after.last_random >>
                 # << returned[j].after.last_timestamp, returned[j].after.last_random >>
            /\ returned[i].result.val # returned[j].result.val
            /\ ~ /\ returned[i].branch = "new"
                 /\ returned[j].branch = "new"
                 /\ returned[i].current_timestamp = returned[j].current_timestamp

\* A thread is about to return a ULID of the millisecond in which an earlier
\* call was served, while another thread waits for the Mutex it holds.
C2_Witness ==
    \E t, u \in Threads :
        /\ t # u
        /\ mutex = t
        /\ pc[t] = "unlock"
        /\ frame[t].result.ok
        /\ pc[u] = "lock"
        /\ \E i \in Returned :
            /\ Issued(i)
            /\ returned[i].after.last_timestamp = st.last_timestamp

\* C5: a call whose clock reading is below last_timestamp fails with the
\* clock-regression error and issues nothing; last_timestamp never
\* decreases, and no ULID carries a timestamp smaller than that of a ULID
\* issued before it.
C5_ClockRegressionFails ==
    /\ \A i \in Returned :
        /\ Lt(returned[i].current_timestamp, returned[i].before.last_timestamp)
              => returned[i].result = Err("ClockRegression")
        /\ ~Lt(returned[i].after.last_timestamp, returned[i].before.last_timestamp)
        /\ ~Lt(st.last_timestamp, returned[i].after.last_timestamp)
    /\ \A i, j \in Returned :
        (Issued(i) /\ Issued(j) /\ LockedBefore(i, j))
            => ~Lt(returned[j].after.last_timestamp,
                   returned[i].after.last_timestamp)

\* A call saw the clock behind last_timestamp and a later call was served.
C5_Witness ==
    \E i, j \in Returned :
        /\ Lt(returned[i].current_timestamp, returned[i].before.last_timestamp)
        /\ LockedBefore(i, j)
        /\ Issued(j)

\* C6: a call that finds last_random at 2^80 - 1 and reads the clock at
\* last_timestamp fails with the random-overflow error; last_random is not
\* wrapped, and every further call in that millisecond fails the same way.
C6_OverflowFails ==
    \A i \in Returned :
        ( /\ returned[i].current_timestamp = returned[i].before.last_timestamp
          /\ returned[i].before.last_random = MaxRandom )
        => /\ returned[i].result = Err("RandomOverflow")
           /\ returned[i].after = returned[i].before

\* Two calls in one millisecond both found last_random exhausted.
C6_Witness ==
    \E i, j \in Returned :
        /\ i # j
        /\ returned[i].branch = "overflow"
        /\ returned[j].branch = "overflow"
        /\ returned[i].current_timestamp = returned[j].current_timestamp
        /\ returned[i].before.last_random = MaxRandom

\* C7, as claimed: ulid() never fails.
C7_NeverFails == \A i \in Returned : Issued(i)

\* C7, amended: ulid() is the strict operation. It fails with the
\* clock-regression error exactly when the reading is below last_timestamp,
\* with the random-overflow error exactly when the reading equals
\* last_timestamp and last_random is 2^80 - 1, and returns a 26-character
\* ULID in every other case.
C7_FailsExactlyWhenStrict ==
    \A i \in Returned :
        LET e == returned[i]
            regressed == Lt(e.current_timestamp, e.before.last_timestamp)
            exhausted == /\ e.current_timestamp = e.before.last_timestamp
                         /\ e.before.last_random = MaxRandom
        IN  /\ (e.result = Err("ClockRegression")) <=> regressed
            /\ (e.result = Err("RandomOverflow")) <=> exhausted
            /\ (e.result.ok /\ Len(e.result.val) = 26)
                   <=> (~regressed /\ ~exhausted)

\* One call failed on a backward clock, one on an exhausted last_random, and
\* one was served.
C7_Witness ==
    \E i, j, k \in Returned :
        /\ returned[i].result = Err("ClockRegression")
        /\ returned[j].result = Err("RandomOverflow")
        /\ Issued(k)


\* ------------------------------------------------------------------------
\* The text operations on the bounded inputs (specification SpecText)
\* ------------------------------------------------------------------------

TextInit ==
    /\ EngineIdle
    /\ CodecIdle
    /\ text \in TextInputs
    /\ fn = << >>
    /\ ret = Err("pending")

TextNext ==
    \/ UlidIsValid
    \/ UlidToUuid
    \/ UuidToUlid
    \/ UuidToUlidOfResult
    \/ DecodeBase32OfText
    \/ UlidTimestamp
    \/ UlidRandom
    \/ UlidFromStr
    \/ UlidTimestampOfResult

SpecText == TextInit /\ [][TextNext]_vars

\* ------------------------------------------------------------------------
\* Properties of the codec and the value type
\* ------------------------------------------------------------------------

\* C3: decode_base32(encode_base32(v)) = v for every 128-bit value v.
C3_RoundTrip == decoded # Err("pending") => decoded = Ok(value)

\* The timestamp fits in 48 bits.
Fits48(timestamp) ==
    \A i \in 0..(U64_BITS - 1) : i >= TIME_BITS => Bit(timestamp, i) = 0

\* C4: for 48-bit timestamps t1 < t2 the text of a ULID built from t1 is
\* smaller than the text of a ULID built from t2, whatever the random
\* payloads are (here: for the ULIDs ulid_with_timestamp builds).
C4_SortOrder ==
    \A i, j \in 1..Len(made) :
        ( /\ Fits48(made[i].timestamp_ms)
          /\ Fits48(made[j].timestamp_ms)
          /\ Lt(made[i].timestamp_ms, made[j].timestamp_ms) )
        => StrLt(made[i].text, made[j].text)

\* ------------------------------------------------------------------------
\* Properties of the text operations
\* ------------------------------------------------------------------------

\* One of the 32 symbols 0123456789ABCDEFGHJKMNPQRSTVWXYZ or the lower-case
\* form of one.
IsSymbol(c) ==
    \/ c \in 48..57
    \/ c \in (65..90) \ {73, 76, 79, 85}
    \/ c \in (97..122) \ {105, 108, 111, 117}

\* A valid ULID string: exactly 26 characters, each a symbol.
IsUlidText(s) == Len(s) = 26 /\ \A i \in 1..Len(s) : IsSymbol(s[i])

\* A hexadecimal digit: 0-9, a-f, A-F.
IsHexDigit(c) == c \in 48..57 \/ c \in 97..102 \/ c \in 65..70

\* s in upper case.
UpperCase(s) ==
    AsSeq([i \in 1..Len(s) |-> IF s[i] \in 97..122 THEN s[i] - 32 ELSE s[i]])

\* C8: for every valid 26-character ULID string x, ulid_to_uuid(x) succeeds
\* and uuid_to_ulid(ulid_to_uuid(x)) is x in upper case.
C8_UuidRoundTrip ==
    IsUlidText(text) =>
        /\ fn = << "ulid_to_uuid" >> => ret.ok
        /\ fn = << "ulid_to_uuid", "uuid_to_ulid" >> => ret = Ok(UpperCase(text))

\* C9: ulid_is_valid returns true if and only if the string is exactly 26
\* characters long and each character is one of the 32 symbols or the
\* lower-case form of one.
C9_Validator == fn = << "ulid_is_valid" >> => (ret.val <=> IsUlidText(text))

\* C10: uuid_to_ulid returns a ULID string only if the input with its
\* hyphens removed is exactly 32 hexadecimal digits; it fails with the format
\* error when what remains is not 32 long (neither in chars nor in bytes),
\* and with the invalid-hex error when what remains is 32 bytes long and
\* holds a character that is no hexadecimal digit.
C10_UuidFormat ==
    fn = << "uuid_to_ulid" >> =>
        LET rest == StripHyphens(text)
            allHex == \A i \in 1..Len(rest) : IsHexDigit(rest[i])
        IN  /\ ret.ok => (Len(rest) = 32 /\ allHex)
            /\ (Len(rest) # 32 /\ StrLen(rest) # 32) => ret = Err("FormatError")
            /\ (StrLen(rest) = 32 /\ ~allHex) => ret = Err("InvalidHex")

\* ------------------------------------------------------------------------
\* The producers of strings, one per behaviour (specification SpecFormat)
\* ------------------------------------------------------------------------

\* encode_base32, ulid_with_timestamp and ulid() share no state: a behaviour
\* of SpecFormat applies one of them, encode_base32 to any of the inputs,
\* the other two from the idle state.
EncodeAlone ==
    /\ EngineIdle
    /\ made = << >>
    /\ EncodeBase32

MadeAlone ==
    /\ EngineIdle
    /\ CodecIdle \/ made # << >>
    /\ UlidWithTimestamp

EngineAlone ==
    /\ CodecIdle
    /\ Next

FormatNext ==
    \/ EncodeAlone
    \/ MadeAlone
    \/ EngineAlone

SpecFormat == CodecInit /\ [][FormatNext]_vars

\* The upper-case symbols 0123456789ABCDEFGHJKMNPQRSTVWXYZ.
UpperSymbols == (48..57) \cup ((65..90) \ {73, 76, 79, 85})

\* Exactly 26 characters, each an upper-case symbol.
IsEncoding(s) == Len(s) = 26 /\ \A i \in 1..Len(s) : s[i] \in UpperSymbols

\* C11: encode_base32(v) is 26 upper-case symbols, left-padded with '0' (a
\* value below 32^k leaves the first 26 - k characters '0'), 26 times '0' for
\* v = 0; every string ulid() and ulid_with_timestamp return is 26 upper-case
\* symbols.
C11_FixedWidth ==
    /\ encoded # << >> =>
        /\ IsEncoding(encoded)
        /\ \A k \in 0..25 :
             IsZero(Shr(value, 5 * k)) => \A i \in 1..(26 - k) : encoded[i] = 48
    /\ \A i \in Returned : Issued(i) => IsEncoding(returned[i].result.val)
    /\ \A i \in 1..Len(made) : IsEncoding(made[i].text)

\* encode_base32 returned the text of a value with all 128 bits set.
C11_Witness ==
    /\ value = bitmask(U128_BITS)
    /\ encoded # << >>
    /\ encoded[26] = 90

\* ------------------------------------------------------------------------
\* Further properties of the generation engine (specification Spec)
\* ------------------------------------------------------------------------

\* Calls i and j both returned a ULID, j after i in lock order, and no call
\* between them returned one.
ConsecutiveIssued(i, j) ==
    /\ Issued(i) /\ Issued(j) /\ LockedBefore(i, j)
    /\ \A k \in Returned :
         (LockedBefore(i, k) /\ LockedBefore(k, j)) => ~Issued(k)

\* C12: of two consecutive successful ulid() calls that read the same
\* millisecond, the second ULID has the timestamp of the first and the
\* random component of the first plus one, in the state and in the text, and
\* its string is the greater.
C12_MonotonicIncrement ==
    \A i, j \in Returned :
        ( /\ ConsecutiveIssued(i, j)
          /\ returned[i].current_timestamp = returned[j].current_timestamp )
        => LET a == returned[i]
               b == returned[j]
           IN  /\ b.after.last_timestamp = a.after.last_timestamp
               /\ b.after.last_random = Add1(a.after.last_random)
               /\ ulid_timestamp(b.result.val) = ulid_timestamp(a.result.val)
               /\ ulid_timestamp(b.result.val) = Ok(b.current_timestamp)
               /\ ulid_random(b.result.val)
                    = Ok(Add1(ulid_random(a.result.val).val))
               /\ StrLt(a.result.val, b.result.val)

\* Two ULIDs were issued in one millisecond, and a call between them failed.
C12_Witness ==
    \E i, j, k \in Returned :
        /\ ConsecutiveIssued(i, j)
        /\ returned[i].current_timestamp = returned[j].current_timestamp
        /\ LockedBefore(i, k) /\ LockedBefore(k, j)

\* ------------------------------------------------------------------------
\* The engine under fair scheduling (specification SpecLive)
\* ------------------------------------------------------------------------

\* The steps of thread t after get_or_init other than lock(): at most one
\* of them is enabled at a time.
Run(t) ==
    \/ New(t)
    \/ ReadClock(t)
    \/ Decide(t)
    \/ Apply(t)
    \/ RenderString(t)
    \/ Unlock(t)

\* A thread inside a call keeps running (weak fairness of its steps), and a
\* thread blocked in lock() is not passed over for ever when the Mutex is
\* free again and again (strong fairness of Lock).  Whether a thread calls
\* ulid() at all is left open.
SpecLive ==
    /\ Init
    /\ [][Next]_vars
    /\ \A t \in Threads : WF_vars(Run(t)) /\ SF_vars(Lock(t))

\* The steps of a call made with the Mutex locked.
InCall(t) == pc[t] \in {"read_clock", "decide", "apply", "render", "unlock"}

\* C13: the Mutex is held by the caller through its clock read, branch,
\* update and rendering, and is free whenever no call is inside them,
\* whichever way the calls before returned; so the call of every caller
\* waiting in lock() eventually returns (which it does only from inside the
\* steps made with the Mutex held).
C13_LockReleased ==
    /\ [](\A t \in Threads : InCall(t) => mutex = t)
    /\ []((\A t \in Threads : ~InCall(t)) => mutex = 0)
    /\ \A t \in Threads : (pc[t] = "lock") ~> (pc[t] = "idle")

\* A caller waits in lock() while the holder of the Mutex is about to return
\* an error.
C13_Witness ==
    \E t, u \in Threads :
        /\ pc[t] = "lock"
        /\ mutex = u
        /\ pc[u] = "unlock"
        /\ ~frame[u].result.ok

\* ------------------------------------------------------------------------
\* ulid() beside ulid_with_timestamp (specification SpecBypass)
\* ------------------------------------------------------------------------

\* The steps of the calls of ulid() thread t makes.
Call(t) ==
    \/ GetOrInit(t)
    \/ Lock(t)
    \/ Run(t)

\* A call of ulid_with_timestamp, at any point of the calls of ulid() that
\* thread 1 makes; one such call in a behaviour.
Bypass ==
    /\ made = << >>
    /\ UlidWithTimestamp

BypassNext ==
    \/ Bypass
    \/ Call(1)

SpecBypass == Init /\ [][BypassNext]_vars

\* C14: ulid_with_timestamp leaves the shared state (and every caller of
\* ulid()) as it is, for every timestamp; a call of ulid() made around it
\* finds the state the call of ulid() before it left, and fails or is
\* served as that state and its own clock reading decide.
C14_BypassesState ==
    /\ [][made' # made => UNCHANGED engineVars]_vars
    /\ [](\A i, j \in Returned :
            returned[j].ticket = returned[i].ticket + 1
                => returned[j].before = returned[i].after)
    /\ [](\A i \in Returned :
            /\ returned[i].branch
                 = Branch(returned[i].before, returned[i].current_timestamp)
            /\ Issued(i) <=> returned[i].branch \in {"increment", "new"}
            /\ Issued(i) =>
                 returned[i].after
                   = Snapshot(Update(returned[i].before, returned[i].branch,
                                     returned[i].current_timestamp,
                                     returned[i].after.last_random)))

\* ulid_with_timestamp was called with a timestamp beyond 48 bits after one
\* call of ulid() returned, and the next call of ulid(), holding the Mutex,
\* is about to compare its clock reading with the state.
C14_Witness ==
    /\ made # << >>
    /\ ~Fits48(made[1].timestamp_ms)
    /\ returned # << >>
    /\ pc[1] = "decide"

\* ------------------------------------------------------------------------
\* The state of the generation engine (specification Spec)
\* ------------------------------------------------------------------------

\* C15: every string ulid() returns, built from the cached timestamp
\* encoding and the encoding of last_random, is the encoding of the whole
\* value Ulid::from_parts(last_timestamp, last_random) of the state the
\* call left.
C15_CachedEqualsFull ==
    \A i \in Returned :
        Issued(i) =>
            returned[i].result.val
              = to_string(from_parts(returned[i].after.last_timestamp,
                                     returned[i].after.last_random))

\* C16: last_random never exceeds 2^80 - 1, in the state and in what every
\* call found and left, and an increment in the same millisecond starts
\* below 2^80 - 1.
C16_RandomBounded ==
    /\ ~Lt(MaxRandom, st.last_random)
    /\ \A i \in Returned :
        /\ ~Lt(MaxRandom, returned[i].before.last_random)
        /\ ~Lt(MaxRandom, returned[i].after.last_random)
        /\ returned[i].branch = "increment"
             => Lt(returned[i].before.last_random, MaxRandom)

\* An increment in the same millisecond has brought last_random to 2^80 - 1.
C16_Witness ==
    /\ st.last_random = MaxRandom
    /\ \E i \in Returned :
        /\ returned[i].branch = "increment"
        /\ returned[i].after.last_random = MaxRandom

\* The threads that are past get_or_init.
PastInit == { t \in Threads : pc[t] \notin {"idle", "new"} }

\* C17: the state is constructed at most once, by one thread, from one
\* clock reading and one sample; every caller past get_or_init finds it
\* constructed, and once constructed it is changed by holders of the Mutex
\* only and never constructed again.
C17_InitOnce ==
    /\ [](ninits <= 1)
    /\ []((once = "done") <=> (ninits = 1))
    /\ [](Cardinality({ t \in Threads : pc[t] = "new" }) <= 1)
    /\ []((once = "running") <=> (\E t \in Threads : pc[t] = "new"))
    /\ [](PastInit # {} => once = "done")
    /\ [](once # "done" => st = NoState)
    /\ [][ninits' # ninits =>
            \E timestamp \in ClockReadings, raw \in RawSamples :
                st' = UlidState_new(timestamp, raw)]_vars
    /\ [][once = "done" =>
            /\ once' = "done"
            /\ ninits' = ninits
            /\ st' # st => mutex # 0]_vars

\* Both threads made their first call together: one constructed the state,
\* and both are past get_or_init before either has taken the Mutex.
C17_Witness ==
    /\ ninits = 1
    /\ nlocks = 0
    /\ \A t \in Threads : pc[t] = "lock"

\* C19: a failing call leaves the state as it found it, and a call whose
\* clock reading is greater than the last_timestamp it finds is served,
\* whatever the calls before it returned.
C19_FailureLeavesState ==
    \A i \in Returned :
        /\ ~Issued(i) => returned[i].after = returned[i].before
        /\ Lt(returned[i].before.last_timestamp, returned[i].current_timestamp)
             => Issued(i)
        /\ \A j \in Returned :
             returned[j].ticket = returned[i].ticket + 1
                => returned[j].before = returned[i].after

\* A call failed, and the next call, reading a greater clock value, was
\* served.
C19_Witness ==
    \E i, j \in Returned :
        /\ returned[j].ticket = returned[i].ticket + 1
        /\ ~Issued(i)
        /\ Lt(returned[j].before.last_timestamp, returned[j].current_timestamp)
        /\ Issued(j)

\* ------------------------------------------------------------------------
\* Decoding and parsing of arbitrary text (specification SpecText)
\* ------------------------------------------------------------------------

\* The value of a symbol, in either case: the number of symbols before it
\* in the alphabet.
SymbolValue(b) ==
    LET upper == IF b \in 97..122 THEN b - 32 ELSE b
    IN  Cardinality({ c \in UpperSymbols : c < upper })

\* The base-32 number the symbols spell, modulo 2^128: bit i is bit i % 5
\* of the symbol i \div 5 places from the end.
Base32Mod128(bytes) ==
    Pack([i \in 0..(U128_BITS - 1) |->
            LET p == Len(bytes) - (i \div 5)
            IN  IF p >= 1 THEN (SymbolValue(bytes[p]) \div (2 ^ (i % 5))) % 2
                ELSE 0])

\* C18: decode_base32 of a string of symbols only, of any length, returns
\* the number the symbols spell modulo 2^128; of any other string it fails
\* with the first byte that is no symbol.
C18_DecodeNoLengthLimit ==
    fn = << "decode_base32" >> =>
        LET bytes == Utf8(text)
            bad == { i \in 1..Len(bytes) : ~IsSymbol(bytes[i]) }
        IN  IF bad = {}
            THEN ret = Ok(Base32Mod128(bytes))
            ELSE ret = InvalidCharacter(
                         bytes[CHOOSE i \in bad : \A j \in bad : i <= j])

\* decode_base32 of 27 times 'Z', 135 bits: the result is 2^128 - 1.
C18_Witness ==
    /\ fn = << "decode_base32" >>
    /\ Len(text) > 26
    /\ \A i \in 1..Len(text) : text[i] = 90
    /\ ret = Ok(bitmask(U128_BITS))

\* C20: ulid_timestamp, ulid_random and ulid_to_uuid succeed on exactly
\* the strings ulid_is_valid accepts, and ulid_timestamp accepts every
\* string ulid_from_str returns.
C20_ValidatorAndParsersAgree ==
    /\ fn \in { << "ulid_timestamp" >>, << "ulid_random" >>, << "ulid_to_uuid" >> }
         => (ret.ok <=> ulid_is_valid(text))
    /\ fn = << "ulid_from_str", "ulid_timestamp" >> => ret.ok

====
